---- MODULE Spec2Model ----
(***************************************************************************)
(* A model of the logging facade of src/logger.go: the process-wide        *)
(* defaultLogger, InitLogger, the lazy accessors getLogger / GetLogger,    *)
(* Ctx, WithFields and the package-level leveled functions.                *)
(*                                                                         *)
(* Go strings that the code reads character by character (level, filename, *)
(* the configuration document) are sequences of characters; strings the    *)
(* code only compares for equality (encodingType, context keys) are TLA+   *)
(* strings.  A printable ASCII character is the one-character string; the  *)
(* grave accent, which a TLA+ string cannot hold, and every character      *)
(* outside printable ASCII is named by its code point, "U+000A" for the    *)
(* line feed.                                                              *)
(***************************************************************************)
EXTENDS Integers, Sequences, FiniteSets

(***************************************************************************)
(* Bounds of the model.                                                    *)
(***************************************************************************)
\* longest filename drawn, over FileChars, for InitLogger in the resolution
\* specification
MaxFileLen == 2
\* number of application-level calls made in one run of the facade
MaxOps == 2
\* number of Ctx calls made in one run of the context specification
MaxCtxCalls == 1

(***************************************************************************)
(* Characters.                                                             *)
(***************************************************************************)
\* the printable ASCII characters, U+0020 to U+007E, in the order of their
\* code points
Ascii ==
    <<" ","!","\"","#","$","%","&","'","(",")","*","+",",","-",".","/","0",
      "1","2","3","4","5","6","7","8","9",":",";","<","=",">","?","@","A",
      "B","C","D","E","F","G","H","I","J","K","L","M","N","O","P","Q","R",
      "S","T","U","V","W","X","Y","Z","[","\\","]","^","_","U+0060","a","b","c",
      "d","e","f","g","h","i","j","k","l","m","n","o","p","q","r","s","t",
      "u","v","w","x","y","z","{","|","}","~">>

HexDigits == <<"0","1","2","3","4","5","6","7","8","9",
               "A","B","C","D","E","F">>

RECURSIVE Hex(_, _)
\* n in hexadecimal, on at least w digits
Hex(n, w) ==
    IF w <= 0 /\ n = 0 THEN ""
    ELSE Hex(n \div 16, w - 1) \o HexDigits[(n % 16) + 1]

\* the character of code point n
Rune(n) == IF n \in 32..126 THEN Ascii[n - 31] ELSE "U+" \o Hex(n, 4)

\* the characters below U+0020
ControlChars == {Rune(n) : n \in 0..31}

LowerLetters == <<"a","b","c","d","e","f","g","h","i","j","k","l","m",
                  "n","o","p","q","r","s","t","u","v","w","x","y","z">>
UpperLetters == <<"A","B","C","D","E","F","G","H","I","J","K","L","M",
                  "N","O","P","Q","R","S","T","U","V","W","X","Y","Z">>

\* the characters outside ASCII the model names: dotless i, long s, capital
\* I with dot, the Kelvin sign, the replacement character and an emoji
DotlessI   == Rune(305)
LongS      == Rune(383)
DottedI    == Rune(304)
KelvinSign == Rune(8490)
OtherRunes == {DotlessI, LongS, DottedI, KelvinSign, Rune(65533), Rune(128512)}

\* the characters outside a-z that Unicode upper-cases to an ASCII letter
UpperSpecial == [c \in {DotlessI, LongS} |-> IF c = DotlessI THEN "I" ELSE "S"]

\* unicode.ToUpper on one character of the model: a-z, dotless i and long s
\* have an upper case of their own, the other ASCII characters, the control
\* characters and the other characters named above are their own upper case
ToUpperRune(c) ==
    CASE \E i \in 1..26 : LowerLetters[i] = c ->
             UpperLetters[CHOOSE i \in 1..26 : LowerLetters[i] = c]
      [] c \in DOMAIN UpperSpecial -> UpperSpecial[c]
      [] c \in ({Ascii[i] : i \in 1..Len(Ascii)} \cup ControlChars \cup OtherRunes)
            \ ({LowerLetters[i] : i \in 1..26} \cup DOMAIN UpperSpecial) -> c

\* strings.ToUpper(level), logger.go:46
ToUpper(s) == [i \in 1..Len(s) |-> ToUpperRune(s[i])]

S_DEBUG   == <<"D","E","B","U","G">>
S_INFO    == <<"I","N","F","O">>
S_WARN    == <<"W","A","R","N">>
S_ERROR   == <<"E","R","R","O","R">>
S_debug   == <<"d","e","b","u","g">>
S_outlog  == <<"o","u","t",".","l","o","g">>
S_stdout  == <<"s","t","d","o","u","t">>
S_stderr  == <<"s","t","d","e","r","r">>
S_json    == <<"j","s","o","n">>
S_console == <<"c","o","n","s","o","l","e">>

\* levelName after the switch of logger.go:45-57
LevelName(level) ==
    LET u == ToUpper(level)
    IN  CASE u = S_DEBUG -> S_DEBUG
          [] u = S_INFO  -> S_INFO
          [] u = S_WARN  -> S_WARN
          [] u = S_ERROR -> S_ERROR
          [] OTHER       -> S_DEBUG

\* encoding after logger.go:61-75
Encoding(isSave, encodingType) ==
    IF isSave THEN S_json
    ELSE IF Len(encodingType) > 0 /\ encodingType[1] = "json"
         THEN S_json ELSE S_console

\* filename after logger.go:40-42
Filename(isSave, filename) ==
    IF isSave /\ filename = <<>> THEN S_outlog ELSE filename

(***************************************************************************)
(* The configuration document.  fmt.Sprintf puts levelName, encoding and   *)
(* filename into the document as they are; json.Unmarshal parses the text  *)
(* that results.                                                           *)
(***************************************************************************)
\* the format of logger.go:64-69, cut at its four %s
FileFormat ==
    <<
      <<"{","U+000A"," "," "," "," "," "," ","U+0009","U+0009","\"","l","e",
        "v","e","l","\"",":"," ","\"">>,
      <<"\"",",","U+000A"," "," "," "," "," "," ","U+0009","U+0009","\"",
        "e","n","c","o","d","i","n","g","\"",":"," ","\"">>,
      <<"\"",",","U+000A"," "," "," "," "," "," ","U+0009","U+0009","\"",
        "o","u","t","p","u","t","P","a","t","h","s","\"",":"," ","[","\"">>,
      <<"\"","]",",","U+000A"," "," "," "," "," "," ","U+0009","U+0009",
        "\"","e","r","r","o","r","O","u","t","p","u","t","P","a","t","h",
        "s","\"",":"," ","[","\"">>,
      <<"\"","]","U+000A"," "," "," "," "," "," ","U+0009","}">>
    >>

\* the format of logger.go:77-82, cut at its two %s
ConsoleFormat ==
    <<
      <<"{","U+000A"," "," "," "," "," "," ","U+0009","U+0009","\"","l","e",
        "v","e","l","\"",":"," ","\"">>,
      <<"\"",",","U+000A"," "," "," "," "," "," "," "," "," "," "," "," ",
        "\"","e","n","c","o","d","i","n","g","\"",":"," ","\"">>,
      <<"\"",",","U+000A"," "," "," "," "," "," ","U+0009","U+0009","\"",
        "o","u","t","p","u","t","P","a","t","h","s","\"",":"," ","[","\"",
        "s","t","d","o","u","t","\"","]",",","U+000A"," "," "," "," "," ",
        " "," "," "," "," "," "," ","\"","e","r","r","o","r","O","u","t",
        "p","u","t","P","a","t","h","s","\"",":"," ","[","\"","s","t","d",
        "o","u","t","\"","]","U+000A","U+0009","U+0009","}">>
    >>

RECURSIVE SprintfFrom(_, _, _)
SprintfFrom(format, args, i) ==
    IF i > Len(args) THEN format[i]
    ELSE format[i] \o args[i] \o SprintfFrom(format, args, i + 1)

\* fmt.Sprintf of a format whose verbs are all %s, one per argument
Sprintf(format, args) == SprintfFrom(format, args, 1)

(***************************************************************************)
(* json.Unmarshal (logger.go:86), for the documents the two formats can    *)
(* give: objects, arrays and strings.  Numbers and the literals true,      *)
(* false and null are not modelled: JsonValue has no case for a value that *)
(* starts like one.                                                        *)
(***************************************************************************)
\* the white space between the tokens of a document
JsonSpace == {" ", Rune(9), Rune(10), Rune(13)}

\* the two-character escapes of a string literal and what they decode to
JsonEscapes ==
    [x \in {"\"", "\\", "/", "b", "f", "n", "r", "t"} |->
        CASE x = "b" -> Rune(8)
          [] x = "f" -> Rune(12)
          [] x = "n" -> Rune(10)
          [] x = "r" -> Rune(13)
          [] x = "t" -> Rune(9)
          [] OTHER   -> x]

\* the value of a hexadecimal digit, -1 for any other character
HexValue(c) ==
    IF \E i \in 1..16 : HexDigits[i] = c
    THEN (CHOOSE i \in 1..16 : HexDigits[i] = c) - 1
    ELSE IF \E i \in 1..6 : LowerLetters[i] = c
    THEN (CHOOSE i \in 1..6 : LowerLetters[i] = c) + 9
    ELSE -1

\* the code unit of an escape \uXXXX that starts at position i of s, -1 when
\* none starts there
getu4(s, i) ==
    IF /\ i + 5 <= Len(s)
       /\ s[i] = "\\" /\ s[i+1] = "u"
       /\ \A k \in 2..5 : HexValue(s[i+k]) >= 0
    THEN 4096 * HexValue(s[i+2]) + 256 * HexValue(s[i+3])
         + 16 * HexValue(s[i+4]) + HexValue(s[i+5])
    ELSE -1

\* utf16.IsSurrogate: U+D800 to U+DFFF
IsSurrogate(r) == 55296 <= r /\ r < 57344

\* utf16.DecodeRune: the code point of a surrogate pair, U+FFFD when the two
\* code units are no pair
DecodeRune(r1, r2) ==
    IF 55296 <= r1 /\ r1 < 56320 /\ 56320 <= r2 /\ r2 < 57344
    THEN (r1 - 55296) * 1024 + (r2 - 56320) + 65536
    ELSE 65533

JsonFail == [ok |-> FALSE, pos |-> 0, val |-> <<>>]

\* A statement of the decoder uses the result v of the statement before it.
\* Here that is the application [x \in T |-> e][v] of a function to v,
\* where T is the type of the result, or, for a result that holds a JSON
\* value, CHOOSE y \in {e : x \in {v}} : TRUE, the value of e for x = v.
\* Both evaluate v once, and before e.

\* the characters
Chars == STRING

\* the results of JsonScan
ScanResults == [ok : BOOLEAN, pos : Nat, val : Seq(Chars)]

\* the first position from i on that holds a character of C, Len(s) + 1
\* when there is none
NextIn(s, i, C) ==
    CHOOSE p \in i..(Len(s) + 1) :
        /\ p > Len(s) \/ s[p] \in C
        /\ \A q \in i..(p - 1) : s[q] \notin C

\* the characters that end a run of plain characters of a string literal
JsonStops == {"\"", "\\"} \cup ControlChars

RECURSIVE JsonScan(_, _, _)
\* a string literal of s whose body starts at position i: the body ends at
\* the first quote no backslash escapes; a backslash starts one of the
\* escapes or \uXXXX, where a surrogate takes the low surrogate that follows
\* it and is U+FFFD without one; a character below U+0020 is an error; the
\* characters before the next quote, backslash or control character are
\* taken as they are; pos is the position after the closing quote
JsonScan(s, i, acc) ==
    [p \in Nat |->
        IF p > Len(s) THEN JsonFail
        ELSE IF s[p] = "\""
        THEN [ok |-> TRUE, pos |-> p + 1, val |-> acc \o SubSeq(s, i, p - 1)]
        ELSE IF s[p] # "\\" THEN JsonFail
        ELSE IF p < Len(s) /\ s[p+1] \in DOMAIN JsonEscapes
        THEN JsonScan(s, p + 2,
                      Append(acc \o SubSeq(s, i, p - 1), JsonEscapes[s[p+1]]))
        ELSE [rr \in Int |->
                IF rr < 0 THEN JsonFail
                ELSE IF ~IsSurrogate(rr)
                THEN JsonScan(s, p + 6,
                              Append(acc \o SubSeq(s, i, p - 1), Rune(rr)))
                ELSE IF DecodeRune(rr, getu4(s, p + 6)) # 65533
                THEN JsonScan(s, p + 12,
                              Append(acc \o SubSeq(s, i, p - 1),
                                     Rune(DecodeRune(rr, getu4(s, p + 6)))))
                ELSE JsonScan(s, p + 6,
                              Append(acc \o SubSeq(s, i, p - 1), Rune(65533)))
             ][getu4(s, p)]
    ][NextIn(s, i, JsonStops)]

\* the first position from i on that holds no white space
SkipSpace(s, i) ==
    CHOOSE p \in i..(Len(s) + 1) :
        /\ p > Len(s) \/ s[p] \notin JsonSpace
        /\ \A q \in i..(p - 1) : s[q] \in JsonSpace

\* the characters a number or a literal starts with
LiteralStarts == {"-", "0", "1", "2", "3", "4", "5", "6", "7", "8", "9",
                  "t", "f", "n"}

RECURSIVE JsonValue(_, _)
RECURSIVE JsonElements(_, _, _)
RECURSIVE JsonMembers(_, _, _)

\* the string literal that opens at position i
JsonString(s, i) ==
    [r \in ScanResults |->
        IF r.ok
        THEN [ok |-> TRUE, pos |-> r.pos, val |-> [t |-> "string", v |-> r.val]]
        ELSE JsonFail
    ][JsonScan(s, i + 1, <<>>)]

\* the array that opens at position i
JsonArray(s, i) ==
    [j \in Nat |->
        IF j <= Len(s) /\ s[j] = "]"
        THEN [ok |-> TRUE, pos |-> j + 1, val |-> [t |-> "array", v |-> <<>>]]
        ELSE JsonElements(s, j, <<>>)
    ][SkipSpace(s, i + 1)]

\* the object that opens at position i
JsonObject(s, i) ==
    [j \in Nat |->
        IF j <= Len(s) /\ s[j] = "}"
        THEN [ok |-> TRUE, pos |-> j + 1, val |-> [t |-> "object", v |-> <<>>]]
        ELSE JsonMembers(s, j, <<>>)
    ][SkipSpace(s, i + 1)]

\* the value that starts at the first token from position i0 on
JsonValue(s, i0) ==
    [i \in Nat |->
        IF i > Len(s) THEN JsonFail
        ELSE CASE s[i] = "\"" -> JsonString(s, i)
               [] s[i] = "[" -> JsonArray(s, i)
               [] s[i] = "{" -> JsonObject(s, i)
               [] s[i] \notin {"\"", "[", "{"} \cup LiteralStarts -> JsonFail
    ][SkipSpace(s, i0)]

\* what follows the element e of an array, acc the elements before it: a
\* comma and more elements, or the closing bracket
JsonAfterElement(s, e, acc) ==
    [j \in Nat |->
        IF j > Len(s) THEN JsonFail
        ELSE IF s[j] = ","
        THEN JsonElements(s, j + 1, Append(acc, e.val))
        ELSE IF s[j] = "]"
        THEN [ok |-> TRUE, pos |-> j + 1,
              val |-> [t |-> "array", v |-> Append(acc, e.val)]]
        ELSE JsonFail
    ][SkipSpace(s, e.pos)]

\* the elements of an array from position i on, acc the elements before
JsonElements(s, i, acc) ==
    CHOOSE y \in { (IF e.ok THEN JsonAfterElement(s, e, acc) ELSE JsonFail)
                   : e \in {JsonValue(s, i)} } : TRUE

\* the value of the member whose name is key: a colon, the value and the
\* white space after it; pos is the position of the token that follows
JsonMemberValue(s, key) ==
    [c \in Nat |->
        IF c > Len(s) \/ s[c] # ":" THEN JsonFail
        ELSE CHOOSE y \in { (IF e.ok
                             THEN [ok |-> TRUE, pos |-> SkipSpace(s, e.pos),
                                   val |-> [k |-> key.val, v |-> e.val]]
                             ELSE JsonFail)
                            : e \in {JsonValue(s, c + 1)} } : TRUE
    ][SkipSpace(s, key.pos)]

\* the name of the member at position q and its value
JsonMemberName(s, q) ==
    [key \in ScanResults |->
        IF key.ok THEN JsonMemberValue(s, key) ELSE JsonFail
    ][JsonScan(s, q + 1, <<>>)]

\* the member at position i: a string, a colon, a value and the white space
\* after it
JsonMember(s, i) ==
    [q \in Nat |->
        IF q > Len(s) \/ s[q] # "\"" THEN JsonFail ELSE JsonMemberName(s, q)
    ][SkipSpace(s, i)]

\* the members of an object from position i on, acc the members before: a
\* member, then a comma and more members, or the closing brace
JsonMembers(s, i, acc) ==
    CHOOSE y \in { (IF m.ok /\ m.pos <= Len(s) /\ s[m.pos] = ","
                    THEN JsonMembers(s, m.pos + 1, Append(acc, m.val))
                    ELSE IF m.ok /\ m.pos <= Len(s) /\ s[m.pos] = "}"
                    THEN [ok |-> TRUE, pos |-> m.pos + 1,
                          val |-> [t |-> "object", v |-> Append(acc, m.val)]]
                    ELSE JsonFail)
                   : m \in {JsonMember(s, i)} } : TRUE

\* a document is one value with nothing but white space after it
JsonDocument(s) ==
    CHOOSE y \in { (IF d.ok /\ SkipSpace(s, d.pos) > Len(s) THEN d ELSE JsonFail)
                   : d \in {JsonValue(s, 1)} } : TRUE

(***************************************************************************)
(* The decoding of the document into a zap.Config.  Of its members the     *)
(* model decodes level, encoding, outputPaths and errorOutputPaths, the    *)
(* four the formats write; ConfigField has no case for a key that names    *)
(* one of the others.                                                      *)
(***************************************************************************)
\* the JSON names of the members of zap.Config that the model decodes
ConfigNames ==
    [level            |-> <<"l","e","v","e","l">>,
     encoding         |-> <<"e","n","c","o","d","i","n","g">>,
     outputPaths      |-> <<"o","u","t","p","u","t","P","a","t","h","s">>,
     errorOutputPaths |-> <<"e","r","r","o","r","O","u","t","p","u","t",
                            "P","a","t","h","s">>]

\* the JSON names of the members of zap.Config that the model leaves out
OtherConfigNames ==
    { <<"d","e","v","e","l","o","p","m","e","n","t">>,
      <<"d","i","s","a","b","l","e","C","a","l","l","e","r">>,
      <<"d","i","s","a","b","l","e","S","t","a","c","k","t","r","a","c","e">>,
      <<"s","a","m","p","l","i","n","g">>,
      <<"e","n","c","o","d","e","r","C","o","n","f","i","g">>,
      <<"i","n","i","t","i","a","l","F","i","e","l","d","s">> }

\* the characters that are equal to the letter c when case is ignored:
\* its two cases and, for s and k, the long s and the Kelvin sign
FoldClass(c) ==
    IF \E i \in 1..26 : c \in {LowerLetters[i], UpperLetters[i]}
    THEN LET i == CHOOSE i \in 1..26 : c \in {LowerLetters[i], UpperLetters[i]}
         IN  {LowerLetters[i], UpperLetters[i]}
                \cup (IF LowerLetters[i] = "s" THEN {LongS} ELSE {})
                \cup (IF LowerLetters[i] = "k" THEN {KelvinSign} ELSE {})
    ELSE {c}

\* whether a key of the document names the member `name`: encoding/json
\* matches the names of struct fields ignoring case
EqualFold(key, name) ==
    /\ Len(key) = Len(name)
    /\ \A i \in 1..Len(key) : key[i] \in FoldClass(name[i])

\* the member of zap.Config a key names, "" for a key that names none
ConfigField(key) ==
    CASE \E f \in DOMAIN ConfigNames : EqualFold(key, ConfigNames[f]) ->
             CHOOSE f \in DOMAIN ConfigNames : EqualFold(key, ConfigNames[f])
      [] \A n \in {ConfigNames[f] : f \in DOMAIN ConfigNames} \cup OtherConfigNames :
             ~EqualFold(key, n) -> ""

\* the lower-case names of the levels of zapcore
ZapLevelNames ==
    [DEBUG  |-> S_debug,
     INFO   |-> <<"i","n","f","o">>,
     WARN   |-> <<"w","a","r","n">>,
     ERROR  |-> <<"e","r","r","o","r">>,
     DPANIC |-> <<"d","p","a","n","i","c">>,
     PANIC  |-> <<"p","a","n","i","c">>,
     FATAL  |-> <<"f","a","t","a","l">>]

\* the characters bytes.ToLower maps to the lower-case letter c: the letter,
\* its upper case and, for i and k, capital I with dot and the Kelvin sign
LowerClass(c) ==
    LET i == CHOOSE i \in 1..26 : LowerLetters[i] = c
    IN  {c, UpperLetters[i]}
           \cup (IF c = "i" THEN {DottedI} ELSE {})
           \cup (IF c = "k" THEN {KelvinSign} ELSE {})

\* whether bytes.ToLower(text) is the lower-case word `name`
LowersTo(text, name) ==
    /\ Len(text) = Len(name)
    /\ \A i \in 1..Len(text) : text[i] \in LowerClass(name[i])

\* (*zapcore.Level).UnmarshalText: the level a text names, in either case;
\* the empty text names INFO; "" for a text that names no level.  The text
\* "warning" has no case: releases of zap differ on it
ZapLevel(text) ==
    CASE text = <<>> -> "INFO"
      [] \E l \in DOMAIN ZapLevelNames : LowersTo(text, ZapLevelNames[l]) ->
             CHOOSE l \in DOMAIN ZapLevelNames : LowersTo(text, ZapLevelNames[l])
      [] /\ text # <<>>
         /\ \A l \in DOMAIN ZapLevelNames : ~LowersTo(text, ZapLevelNames[l])
         /\ ~LowersTo(text, <<"w","a","r","n","i","n","g">>) -> ""

\* the zero zap.Config
\* the results of Unmarshal
Configs ==
    [ok : BOOLEAN, level : STRING, encoding : Seq(Chars),
     outputPaths : Seq(Seq(Chars)), errorOutputPaths : Seq(Seq(Chars))]

ZeroConfig == [ok |-> TRUE, level |-> "", encoding |-> <<>>,
               outputPaths |-> <<>>, errorOutputPaths |-> <<>>]

\* the decoding of one member of the document into the configuration: a
\* member of another name is skipped, a value of the wrong JSON type or a
\* text that names no level is an error of Unmarshal
DecodeMember(config, m) ==
    [f \in STRING |->
        CASE f = "" -> config
          [] f = "level" ->
                IF m.v.t = "string" /\ ZapLevel(m.v.v) # ""
                THEN [config EXCEPT !.level = ZapLevel(m.v.v)]
                ELSE [config EXCEPT !.ok = FALSE]
          [] f = "encoding" ->
                IF m.v.t = "string"
                THEN [config EXCEPT !.encoding = m.v.v]
                ELSE [config EXCEPT !.ok = FALSE]
          [] f \in {"outputPaths", "errorOutputPaths"} ->
                IF m.v.t = "array" /\ \A i \in 1..Len(m.v.v) : m.v.v[i].t = "string"
                THEN [config EXCEPT ![f] = [i \in 1..Len(m.v.v) |-> m.v.v[i].v]]
                ELSE [config EXCEPT !.ok = FALSE]
    ][ConfigField(m.k)]

RECURSIVE DecodeMembers(_, _, _)
\* the members of the document are decoded in their order, a later member
\* of a name replacing what an earlier one set
DecodeMembers(config, ms, i) ==
    IF i > Len(ms) THEN config
    ELSE DecodeMembers(DecodeMember(config, ms[i]), ms, i + 1)

\* json.Unmarshal([]byte(js), &config), logger.go:85-86
Unmarshal(js) ==
    [s \in Seq(Chars) |->
        CHOOSE y \in { (IF d.ok /\ d.val.t = "object"
                        THEN DecodeMembers(ZeroConfig, d.val.v, 1)
                        ELSE [ZeroConfig EXCEPT !.ok = FALSE])
                       : d \in {JsonDocument(s)} } : TRUE
    ][js]

\* logger.go:36-96: what InitLogger resolves its arguments to (levelName,
\* encodingName, filename), and the configuration it hands to
\* config.Build() or the error of json.Unmarshal
InitConfig(isSave, filename, level, encodingType) ==
    LET fname     == Filename(isSave, filename)
        levelName == LevelName(level)
        encoding  == Encoding(isSave, encodingType)
        js        == IF isSave
                     THEN Sprintf(FileFormat, <<levelName, encoding, fname, fname>>)
                     ELSE Sprintf(ConsoleFormat, <<levelName, encoding>>)
    IN  [config \in Configs |->
        [ err              |-> IF config.ok THEN "nil" ELSE "unmarshal",
          isSave           |-> isSave,
          levelName        |-> levelName,
          encodingName     |-> encoding,
          filename         |-> fname,
          level            |-> config.level,
          encoding         |-> config.encoding,
          outputPaths      |-> config.outputPaths,
          errorOutputPaths |-> config.errorOutputPaths,
          encodeTime       |-> IF isSave THEN "ISO8601TimeEncoder"
                                         ELSE "timeFormatter" ]
        ][Unmarshal(js)]

(***************************************************************************)
(* Ctx: the tracing keys of a context.  A context is modelled by what      *)
(* ctx.Value returns for every key: a value, or NilValue when the key is   *)
(* not bound (or bound to nil).  NilCtx is the nil context.                *)
(***************************************************************************)
NilValue == "<nil>"
NilCtx   == [nilctx |-> TRUE]
\* make(map[string]interface{}), logger.go:124
EmptyMap == [k \in {} |-> NilValue]

\* keys := []string{...}, logger.go:125
keys == <<"X-B3-TraceId", "X-B3-SpanId", "X-B3-ParentSpanId", "X-Span-Name">>

\* a mutant of fieldsMap: every key is stored, found or not
fieldsMapAllKeys(ctx) ==
    IF ctx = NilCtx THEN EmptyMap
    ELSE [k \in {keys[i] : i \in 1..Len(keys)} |-> ctx[k]]

\* fieldsMap after the loop of logger.go:124-133 (the empty function for
\* the empty map)
fieldsMap(ctx) ==
    IF ctx = NilCtx THEN EmptyMap
    ELSE [k \in {keys[i] : i \in 1..Len(keys)} \cap {k \in DOMAIN ctx : ctx[k] # NilValue}
            |-> ctx[k]]

\* Any("context", fieldsMap), logger.go:136 and 273-275
Any(key, val) == [key |-> key, val |-> val]

\* (*zap.Logger).With, as called at logger.go:136 and 201: the same core
\* with the fields added
With(h, fields) == [h EXCEPT !.fields = h.fields \o fields]

\* (*zap.Logger).WithOptions(zap.AddCallerSkip(skip)), logger.go:25 and 286
AddCallerSkip(h, skip) == [h EXCEPT !.skip = h.skip + skip]

\* logger.go:135-139, given the logger getLogger() returned
CtxLogger(ctx, h) ==
    IF Cardinality(DOMAIN fieldsMap(ctx)) > 0 THEN With(h, <<Any("context", fieldsMap(ctx))>>)
    ELSE h

(***************************************************************************)
(* The engine behind the facade (go.uber.org/zap), as far as the facade    *)
(* relies on it.                                                           *)
(***************************************************************************)
\* zapcore levels
LevelRank == [DEBUG |-> -1, INFO |-> 0, WARN |-> 1, ERROR |-> 2,
              DPANIC |-> 3, PANIC |-> 4, FATAL |-> 5]

\* a mutant of Enabled: a logger writes only what is above its level
EnabledAbove(configured, lvl) == LevelRank[lvl] > LevelRank[configured]

\* a mutant of Enabled: nothing above ERROR is written
EnabledUpToError(configured, lvl) ==
    /\ LevelRank[lvl] >= LevelRank[configured]
    /\ LevelRank[lvl] <= LevelRank["ERROR"]

\* whether a logger configured at level `configured` writes a record of lvl
Enabled(configured, lvl) == LevelRank[lvl] >= LevelRank[configured]

\* the level each leveled function of logger.go:145-197 logs at; the same
\* names are the leveled methods of a *zap.Logger
FnLevel == [Debug |-> "DEBUG", Debugf |-> "DEBUG",
            Info  |-> "INFO",  Infof  |-> "INFO",
            Warn  |-> "WARN",  Warnf  |-> "WARN",
            Error |-> "ERROR", Errorf |-> "ERROR",
            Panic |-> "PANIC",
            Fatal |-> "FATAL", Fatalf |-> "FATAL"]

LogFns == DOMAIN FnLevel

\* the nil *zap.Logger, the zero value of defaultLogger (logger.go:15)
NilLogger == [id |-> 0, level |-> "", encoding |-> <<>>, target |-> <<>>]

\* the logger config.Build() makes of a configuration; id tells the loggers
\* built in one run apart
NewLogger(id, cfg) ==
    [id |-> id, level |-> cfg.level, encoding |-> cfg.encoding,
     target |-> cfg.outputPaths]

\* outcomes of config.Build(): it fails when no encoder is registered under
\* the configured name; opening a file may fail, stdout and stderr are
\* always there
BuildOutcomes(cfg) ==
    LET paths == {cfg.outputPaths[i] : i \in DOMAIN cfg.outputPaths}
                    \cup {cfg.errorOutputPaths[i] : i \in DOMAIN cfg.errorOutputPaths}
    IN  IF cfg.encoding \notin {S_json, S_console} THEN {FALSE}
        ELSE IF paths \subseteq {S_stdout, S_stderr} THEN {TRUE}
        ELSE {TRUE, FALSE}

\* the value `defaultLogger, err = config.Build()` stores (logger.go:98):
\* the new logger, or nil together with the error
BuildResult(ok, id, cfg, cur) == IF ok THEN NewLogger(id, cfg) ELSE NilLogger

\* a mutant of NeedsInit: the lazy initialization never runs
NeedsInitNever(v) == FALSE

\* `if defaultLogger == nil`, logger.go:18 and 279
NeedsInit(v) == v = NilLogger

(***************************************************************************)
(* State.                                                                  *)
(***************************************************************************)
Threads == {"t1", "t2"}

VARIABLES
    defaultLogger,  \* the values stored in the variable defaultLogger, in the
                    \* order of the stores; the first is the zero value
    seen,           \* per thread, the latest store its reads must respect
    stack,          \* per thread, the call stack of the call in progress
    sink,           \* the records written, in order
    status,         \* "running", "exited" (os.Exit) or "crashed" (panic)
    ops,            \* number of application calls started
    hist,           \* what has returned, exited or panicked so far
    probe           \* input and result of the resolution specification

vars == <<defaultLogger, seen, stack, sink, status, ops, hist, probe>>

NoCfg    == [err |-> "none", isSave |-> FALSE, levelName |-> <<>>,
             encodingName |-> <<>>, filename |-> <<>>, level |-> "",
             encoding |-> <<>>, outputPaths |-> <<>>, errorOutputPaths |-> <<>>,
             encodeTime |-> ""]
NoHandle == [core |-> 0, skip |-> 0, fields |-> <<>>]
NoArgs   == [isSave |-> FALSE, filename |-> <<>>, level |-> <<>>,
             encodingType |-> <<>>]
NoOp     == [kind |-> "none", fn |-> "", args |-> NoArgs, ctx |-> NilCtx, skip |-> 0]

NoProbe  == [done |-> FALSE, args |-> NoArgs, cfg |-> NoCfg]

Frame(fn, pc) ==
    [fn |-> fn, pc |-> pc, lazy |-> FALSE, cfg |-> NoCfg, entry |-> 0,
     built |-> 0, h |-> NoHandle, skip |-> 0, op |-> NoOp, opn |-> 0]

Event(ev, t, opn) ==
    [ev |-> ev, t |-> t, opn |-> opn, kind |-> "", fn |-> "", lazy |-> FALSE,
     err |-> "", built |-> 0, via |-> 0, emitted |-> FALSE]

\* the stores a read of defaultLogger by thread t may observe: the variable
\* is read and written without synchronization, so a read returns the value
\* of the latest store the thread knows of or of any later one
Observable(t) == seen[t] .. Len(defaultLogger)

\* the variable's value in the order of its stores
Cur == defaultLogger[Len(defaultLogger)]

Top(t)  == stack[t][Len(stack[t])]
Rest(t) == SubSeq(stack[t], 1, Len(stack[t]) - 1)
SetTop(stk, f) == [stk EXCEPT ![Len(stk)] = f]
OpnOf(t) == stack[t][1].opn

\* the frame a record names as its caller: skip frames above the frame that
\* called the leveled method (the last of stk)
Caller(stk, skip) ==
    IF Len(stk) - skip >= 1 THEN stk[Len(stk) - skip].fn ELSE "appCaller"

(***************************************************************************)
(* Inputs of the facade specification.                                     *)
(***************************************************************************)
InitArgs ==
    { [isSave |-> TRUE,  filename |-> <<"a">>,  level |-> <<"W","a","r","n">>,
       encodingType |-> <<>>],
      [isSave |-> FALSE, filename |-> <<>>,     level |-> <<"i","n","f","o">>,
       encodingType |-> <<"json">>],
      [isSave |-> FALSE, filename |-> <<>>,     level |-> S_ERROR,
       encodingType |-> <<>>],
      [isSave |-> TRUE,  filename |-> <<"\"">>, level |-> S_debug,
       encodingType |-> <<>>] }

\* the configuration InitLogger makes of each of these arguments
ConfigOf ==
    [a \in InitArgs |-> InitConfig(a.isSave, a.filename, a.level, a.encodingType)]

CtxKeys == {keys[i] : i \in 1..Len(keys)} \cup {"X-B3-Sampled"}

SomeCtxs ==
    { NilCtx,
      [k \in CtxKeys |-> IF k = "X-B3-TraceId" THEN "t1" ELSE NilValue],
      [k \in CtxKeys |-> IF k = "X-B3-Sampled" THEN "1" ELSE NilValue] }

Methods == {"Debug", "Warn"}

\* the fields the application passes to WithFields
SomeFields == <<[key |-> "hight", val |-> 170]>>

(***************************************************************************)
(* Frames the facade pushes.                                               *)
(***************************************************************************)
\* the frame of getLogger(), logger.go:17: it adds one skipped frame
getLoggerFrame == [Frame("getLogger", "check") EXCEPT !.skip = 1]

\* the frame of InitLogger after logger.go:36-96, about to build; entry is
\* the number of stores to defaultLogger made when the call began
InitLoggerFrame(cfg, lazy) ==
    [Frame("InitLogger", "build") EXCEPT
        !.cfg = cfg, !.lazy = lazy, !.entry = Len(defaultLogger)]

\* the arguments of the default initialization, logger.go:19 and 280
DefaultConfig == InitConfig(FALSE, <<>>, S_debug, <<>>)

Init ==
    /\ defaultLogger = <<NilLogger>>
    /\ seen = [t \in Threads |-> 1]
    /\ stack = [t \in Threads |-> <<>>]
    /\ sink = <<>>
    /\ status = "running"
    /\ ops = 0
    /\ hist = {}
    /\ probe = NoProbe

CanCall(t) == status = "running" /\ stack[t] = <<>> /\ ops < MaxOps

AppFrame(op) == [Frame("app", "call") EXCEPT !.op = op, !.opn = ops + 1]

(***************************************************************************)
(* The application calls the facade.                                       *)
(***************************************************************************)
\* InitLogger(isSave, filename, level, encodingType...), logger.go:36-96:
\* an error of json.Unmarshal returns at once, before any store
CallInitLogger(t) ==
    /\ CanCall(t)
    /\ \E a \in InitArgs :
        LET op  == [NoOp EXCEPT !.kind = "InitLogger", !.args = a]
            cfg == ConfigOf[a]
        IN  IF cfg.err # "nil"
            THEN /\ hist' = hist \cup
                       {[Event("init", t, ops + 1) EXCEPT !.err = cfg.err]}
                 /\ UNCHANGED stack
            ELSE /\ stack' = [stack EXCEPT ![t] =
                                 <<AppFrame(op), InitLoggerFrame(cfg, FALSE)>>]
                 /\ UNCHANGED hist
    /\ ops' = ops + 1
    /\ UNCHANGED <<defaultLogger, seen, sink, status, probe>>

\* Debug, Info, Warn, Error, Panic, Fatal and the f-variants,
\* logger.go:145-197: each starts with getLogger()
CallLog(t) ==
    /\ CanCall(t)
    /\ \E f \in LogFns :
        LET op == [NoOp EXCEPT !.kind = "Log", !.fn = f]
        IN  stack' = [stack EXCEPT ![t] =
                         <<AppFrame(op), Frame(f, "getLogger"), getLoggerFrame>>]
    /\ ops' = ops + 1
    /\ UNCHANGED <<defaultLogger, seen, sink, status, hist, probe>>

\* Ctx(ctx).m(...), logger.go:123-140 and logger_test.go:55, for a context
\* of ctxs and as long as fewer than limit calls were made
CallCtxOf(t, ctxs, limit) ==
    /\ status = "running" /\ stack[t] = <<>> /\ ops < limit
    /\ \E c \in ctxs, m \in Methods :
        LET op == [NoOp EXCEPT !.kind = "Ctx", !.fn = m, !.ctx = c]
        IN  stack' = [stack EXCEPT ![t] =
                         <<AppFrame(op), [Frame("Ctx", "getLogger") EXCEPT !.op = op],
                           getLoggerFrame>>]
    /\ ops' = ops + 1
    /\ UNCHANGED <<defaultLogger, seen, sink, status, hist, probe>>

CallCtx(t) == CallCtxOf(t, SomeCtxs, MaxOps)

\* WithFields(fields...).m(...), logger.go:200-202
CallWithFields(t) ==
    /\ CanCall(t)
    /\ \E m \in Methods :
        LET op == [NoOp EXCEPT !.kind = "WithFields", !.fn = m]
        IN  stack' = [stack EXCEPT ![t] =
                         <<AppFrame(op), Frame("WithFields", "getLogger"),
                           getLoggerFrame>>]
    /\ ops' = ops + 1
    /\ UNCHANGED <<defaultLogger, seen, sink, status, hist, probe>>

\* GetLogger(skip).m(...), logger.go:278-287
CallGetLogger(t) ==
    /\ CanCall(t)
    /\ \E k \in {0, 1}, m \in Methods :
        LET op == [NoOp EXCEPT !.kind = "GetLogger", !.fn = m, !.skip = k]
        IN  stack' = [stack EXCEPT ![t] =
                         <<AppFrame(op),
                           [Frame("GetLogger", "check") EXCEPT !.skip = k]>>]
    /\ ops' = ops + 1
    /\ UNCHANGED <<defaultLogger, seen, sink, status, hist, probe>>

(***************************************************************************)
(* Steps of a call in progress.  A step is one access to shared state (the *)
(* variable defaultLogger, the sink, the process) with the local code      *)
(* around it.                                                              *)
(***************************************************************************)
Running(t) == status = "running" /\ stack[t] # <<>>

\* logger.go:18-19 and 279-280: the nil check, and the call of the default
\* InitLogger(false, "", "debug") when it finds nil
Check(t) ==
    /\ Running(t)
    /\ Top(t).fn \in {"getLogger", "GetLogger"}
    /\ Top(t).pc = "check"
    /\ \E i \in Observable(t) :
        /\ seen' = [seen EXCEPT ![t] = i]
        /\ stack' = [stack EXCEPT ![t] =
              IF NeedsInit(defaultLogger[i])
              THEN Append(SetTop(stack[t], [Top(t) EXCEPT !.pc = "init"]),
                          InitLoggerFrame(DefaultConfig, TRUE))
              ELSE SetTop(stack[t], [Top(t) EXCEPT !.pc = "read"])]
    /\ UNCHANGED <<defaultLogger, sink, status, ops, hist, probe>>

\* logger.go:98-108: the store of config.Build()'s result, the return of its
\* error (log.Fatal in getLogger and GetLogger, logger.go:20-22 and 281-283),
\* or the call of Infof
Build(t) ==
    /\ Running(t)
    /\ Top(t).fn = "InitLogger"
    /\ Top(t).pc = "build"
    /\ \E ok \in BuildOutcomes(Top(t).cfg) :
        LET id == Len(defaultLogger) + 1
        IN  /\ defaultLogger' =
                   Append(defaultLogger, BuildResult(ok, id, Top(t).cfg, Cur))
            /\ seen' = [seen EXCEPT ![t] = id]
            /\ IF ok
               THEN /\ stack' = [stack EXCEPT ![t] =
                          SetTop(stack[t], [Top(t) EXCEPT !.pc = "infof", !.built = id])
                          \o <<Frame("Infof", "getLogger"), getLoggerFrame>>]
                    /\ UNCHANGED <<status, hist>>
               ELSE /\ hist' = hist \cup
                          {[Event("init", t, OpnOf(t)) EXCEPT
                               !.err = "build", !.built = id, !.lazy = Top(t).lazy]}
                    /\ IF Top(t).lazy
                       THEN status' = "exited" /\ UNCHANGED stack
                       ELSE stack' = [stack EXCEPT ![t] = <<>>] /\ UNCHANGED status
    /\ UNCHANGED <<sink, ops, probe>>

\* what the caller of getLogger() / GetLogger(skip) does with the logger h it
\* gets, up to its next access to shared state: the leveled functions go on
\* to write (logger.go:146-196), Ctx and WithFields return h, with their
\* fields added, to the application (logger.go:135-139, 201)
Returned(stk, h) ==
    LET f == stk[Len(stk)]
        below == SubSeq(stk, 1, Len(stk) - 1)
    IN  CASE f.fn = "app" -> SetTop(stk, [f EXCEPT !.pc = "use", !.h = h])
          [] f.fn = "Ctx" ->
                SetTop(below, [below[Len(below)] EXCEPT
                                  !.pc = "use", !.h = CtxLogger(f.op.ctx, h)])
          [] f.fn = "WithFields" ->
                SetTop(below, [below[Len(below)] EXCEPT
                                  !.pc = "use", !.h = With(h, SomeFields)])
          [] OTHER -> SetTop(stk, [f EXCEPT !.pc = "emit", !.h = h])

\* logger.go:25 and 286: the read of defaultLogger and WithOptions on it,
\* which dereferences it
Read(t) ==
    /\ Running(t)
    /\ Top(t).fn \in {"getLogger", "GetLogger"}
    /\ Top(t).pc = "read"
    /\ \E i \in Observable(t) :
        /\ seen' = [seen EXCEPT ![t] = i]
        /\ IF defaultLogger[i] = NilLogger
           THEN /\ stack' = [stack EXCEPT ![t] =
                                SetTop(stack[t], [Top(t) EXCEPT !.pc = "panic"])]
                /\ hist' = hist \cup {Event("nilderef", t, OpnOf(t))}
           ELSE /\ stack' = [stack EXCEPT ![t] =
                       Returned(Rest(t),
                                AddCallerSkip([NoHandle EXCEPT !.core = i], Top(t).skip))]
                /\ UNCHANGED hist
    /\ UNCHANGED <<defaultLogger, sink, status, ops, probe>>

\* the record a leveled method writes: the logger it goes through, the frame
\* named as caller, the fields bound to the logger; init is the logger built
\* by the InitLogger call the record summarizes, 0 for any other record
Record(t) ==
    LET top   == Top(t)
        isApp == top.fn = "app"
        fn    == IF isApp THEN top.op.fn ELSE top.fn
    IN  [opn    |-> OpnOf(t),
         kind   |-> stack[t][1].op.kind,
         t      |-> t,
         fn     |-> fn,
         direct |-> isApp,
         lvl    |-> FnLevel[fn],
         via    |-> top.h.core,
         caller |-> Caller(stack[t], top.h.skip),
         init   |-> IF ~isApp /\ stack[t][Len(stack[t]) - 1].fn = "InitLogger"
                    THEN stack[t][Len(stack[t]) - 1].built ELSE 0,
         fields |-> top.h.fields]

\* the stack after a leveled call that does not end the goroutine returns:
\* back in the application the call is over, back in InitLogger
\* (logger.go:105-110) InitLogger returns nil, to the application or to the
\* getLogger / GetLogger that called it (logger.go:19-25)
AfterWrite(stk) ==
    LET below == SubSeq(stk, 1, Len(stk) - 1)
    IN  IF below = <<>> \/ below[Len(below)].fn = "app" THEN <<>>
        ELSE LET caller == SubSeq(below, 1, Len(below) - 1)
             IN  IF caller[Len(caller)].fn = "app" THEN <<>>
                 ELSE SetTop(caller, [caller[Len(caller)] EXCEPT !.pc = "read"])

\* what returns with that step
WriteEvents(t, wrote) ==
    LET stk   == stack[t]
        below == SubSeq(stk, 1, Len(stk) - 1)
        app   == stk[1]
    IN  IF below = <<>> \/ below[Len(below)].fn = "app"
        THEN {[Event("done", t, OpnOf(t)) EXCEPT
                  !.kind = app.op.kind, !.fn = app.op.fn, !.emitted = wrote]}
        ELSE {[Event("init", t, OpnOf(t)) EXCEPT
                  !.err = "nil", !.lazy = below[Len(below)].lazy,
                  !.built = below[Len(below)].built, !.via = Top(t).h.core,
                  !.emitted = wrote]}

\* the leveled methods of the engine, called at logger.go:146-196 and by
\* the application on the loggers Ctx, WithFields and GetLogger return: the
\* record is written if the logger's level admits it; Fatal then exits and
\* Panic then panics
Emit(t) ==
    /\ Running(t)
    /\ \/ Top(t).fn \in LogFns /\ Top(t).pc = "emit"
       \/ Top(t).fn = "app" /\ Top(t).pc = "use"
    /\ LET rec   == Record(t)
           wrote == Enabled(defaultLogger[rec.via].level, rec.lvl)
       IN  /\ sink' = IF wrote THEN Append(sink, rec) ELSE sink
           /\ CASE rec.lvl = "FATAL" ->
                     /\ stack' = [stack EXCEPT ![t] =
                                     SetTop(stack[t], [Top(t) EXCEPT !.pc = "exit"])]
                     /\ UNCHANGED hist
                [] rec.lvl = "PANIC" ->
                     /\ stack' = [stack EXCEPT ![t] =
                                     SetTop(stack[t], [Top(t) EXCEPT !.pc = "panic"])]
                     /\ UNCHANGED hist
                [] OTHER ->
                     /\ stack' = [stack EXCEPT ![t] = AfterWrite(stack[t])]
                     /\ hist' = hist \cup WriteEvents(t, wrote)
    /\ UNCHANGED <<defaultLogger, seen, status, ops, probe>>

\* os.Exit after the record of a Fatal or Fatalf call
Exit(t) ==
    /\ Running(t)
    /\ Top(t).pc = "exit"
    /\ status' = "exited"
    /\ hist' = hist \cup {[Event("exit", t, OpnOf(t)) EXCEPT
                                !.fn = Top(t).fn, !.via = Top(t).h.core]}
    /\ UNCHANGED <<defaultLogger, seen, stack, sink, ops, probe>>

\* a panic (of the Panic call, or of the nil dereference in getLogger) that
\* nothing recovers ends the process
PanicCrash(t) ==
    /\ Running(t)
    /\ Top(t).pc = "panic"
    /\ status' = "crashed"
    /\ hist' = hist \cup {[Event("panic", t, OpnOf(t)) EXCEPT
                                !.fn = Top(t).fn, !.via = Top(t).h.core]}
    /\ UNCHANGED <<defaultLogger, seen, stack, sink, ops, probe>>

\* a panic the application recovers unwinds the call
PanicRecover(t) ==
    /\ Running(t)
    /\ Top(t).pc = "panic"
    /\ stack' = [stack EXCEPT ![t] = <<>>]
    /\ hist' = hist \cup {[Event("panic", t, OpnOf(t)) EXCEPT
                                !.fn = Top(t).fn, !.via = Top(t).h.core]}
    /\ UNCHANGED <<defaultLogger, seen, sink, status, ops, probe>>

Next ==
    \E t \in Threads :
        \/ CallInitLogger(t)
        \/ CallLog(t)
        \/ CallCtx(t)
        \/ CallWithFields(t)
        \/ CallGetLogger(t)
        \/ Check(t)
        \/ Build(t)
        \/ Read(t)
        \/ Emit(t)
        \/ Exit(t)
        \/ PanicCrash(t)
        \/ PanicRecover(t)

Spec == Init /\ [][Next]_vars

(***************************************************************************)
(* The resolution specification: the configuration InitLogger makes of its *)
(* arguments (logger.go:36-96), the arguments drawn from bounded sets.     *)
(***************************************************************************)
SeqsUpTo(S, n) == UNION {[1..k -> S] : k \in 0..n}

LevelNames == {"DEBUG", "INFO", "WARN", "ERROR"}
UpperOf == [DEBUG |-> S_DEBUG, INFO |-> S_INFO, WARN |-> S_WARN, ERROR |-> S_ERROR]

\* the characters whose upper case in Unicode is the capital letter c: the
\* letter, its lower case and, for I and S, the dotless i and the long s
UpperClass(c) ==
    LET i == CHOOSE i \in 1..26 : UpperLetters[i] = c
    IN  {c, LowerLetters[i]}
           \cup (IF c = "I" THEN {DotlessI} ELSE {})
           \cup (IF c = "S" THEN {LongS} ELSE {})

RECURSIVE CaseVariants(_, _)
\* the strings whose upper-cased form is the first n characters of upper
CaseVariants(upper, n) ==
    IF n = 0 THEN {<<>>}
    ELSE {Append(v, c) : v \in CaseVariants(upper, n - 1), c \in UpperClass(upper[n])}

\* the level strings whose upper-cased form is a level name
VariantsOf(name) == CaseVariants(UpperOf[name], Len(UpperOf[name]))

\* level strings whose upper-cased form is no level name
OtherLevels ==
    { <<>>, <<"x">>, <<"i","n","f">>, <<"w","a","r","n","i","n","g">>,
      <<"D","E","B","U","G"," ">>, <<"f","a","t","a","l">>, <<"e","r","r">>,
      <<DottedI,"n","f","o">>, <<"e","r","r","o","r",Rune(10)>>,
      <<LongS>>, <<KelvinSign>> }

Levels == UNION {VariantsOf(n) : n \in LevelNames} \cup OtherLevels

FileChars == {"a", "n", "\\", "\""}

\* filenames that hold an escape of JSON, a control character, or text that
\* ends the string literal and goes on with more of the document
LongFilenames ==
    {
      <<"a","\"",",","\"","b">>,
      <<"a","\"","]",",","\"","l","e","v","e","l","\"",":","\"","e","r","r",
        "o","r","\"",",","\"","o","u","t","p","u","t","P","a","t","h","s",
        "\"",":","[","\"","a">>,
      <<"a","\"","]",",","\"","e","n","c","o","d","i","n","g","\"",":","\"",
        "c","o","n","s","o","l","e","\"",",","\"","o","u","t","p","u","t",
        "P","a","t","h","s","\"",":","[","\"","a">>,
      <<"a","\"","]",",","\"","L","E","V","E","L","\"",":","\"","F","a","t",
        "a","l","\"",",","\"","o","u","t","p","u","t","P","a","t","h",
        "U+017F","\"",":","[","]",",","\"","z","\"",":","[","\"","c">>,
      <<"a","\"","]",",","\"","x","\"",":","{","\"","y","\"",":","[","\"",
        "b","\"","]","}",",","\"","z","\"",":","[","\"","c">>,
      <<"a","\"","]",",","\"","l","e","v","e","l","\"",":","\"","l","o","u",
        "d","\"",",","\"","z","\"",":","[","\"","c">>,
      <<"a","\"","]",",","\"","o","u","t","p","u","t","P","a","t","h","s",
        "\"",":","\"","b","\"",",","\"","z","\"",":","[","\"","c">>,
      <<"\\","u","0","0","4","1">>,
      <<"\\","u","d","8","3","d","\\","u","d","e","0","0">>,
      <<"\\","u","d","8","0","0">>,
      <<"\\","b">>,
      <<"a","U+000A","b">>,
      <<"a","/","b",".","l","o","g">>
    }

Filenames == SeqsUpTo(FileChars, MaxFileLen) \cup LongFilenames

EncodingTypes ==
    SeqsUpTo({"json", "JSON", "console", ""}, 1)
        \cup {<<"console", "json">>, <<"json", "console">>}

InitResolve ==
    /\ defaultLogger = <<NilLogger>>
    /\ seen = [t \in Threads |-> 1]
    /\ stack = [t \in Threads |-> <<>>]
    /\ sink = <<>>
    /\ status = "running"
    /\ ops = 0
    /\ hist = {}
    /\ \E s \in BOOLEAN, f \in Filenames, l \in Levels, e \in EncodingTypes :
          probe = [NoProbe EXCEPT
                      !.args = [isSave |-> s, filename |-> f, level |-> l,
                                encodingType |-> e]]

\* logger.go:36-96 on the drawn arguments
ResolveInitLogger ==
    /\ ~probe.done
    /\ probe' = [probe EXCEPT !.done = TRUE,
                    !.cfg = InitConfig(probe.args.isSave, probe.args.filename,
                                       probe.args.level, probe.args.encodingType)]
    /\ UNCHANGED <<defaultLogger, seen, stack, sink, status, ops, hist>>

NextResolve == ResolveInitLogger

SpecResolve == InitResolve /\ [][NextResolve]_vars

(***************************************************************************)
(* The context specification: one goroutine calls Ctx(ctx).m(...) on every *)
(* context of AllCtxs, the first call through the lazy initialization.     *)
(***************************************************************************)
Values  == {"t1", "s1", NilValue}
AllCtxs == {NilCtx} \cup [CtxKeys -> Values]

NextCtx ==
    \/ CallCtxOf("t1", AllCtxs, MaxCtxCalls)
    \/ Check("t1")
    \/ Build("t1")
    \/ Read("t1")
    \/ Emit("t1")

SpecCtx == Init /\ [][NextCtx]_vars

(***************************************************************************)
(* Properties.                                                             *)
(***************************************************************************)
\* the records of the sink that summarize the InitLogger call that built
\* logger id
SummariesOf(id) == {i \in DOMAIN sink : sink[i].init = id}

\* the records written by application call opn itself
RecordsOf(opn) == {i \in DOMAIN sink : sink[i].opn = opn /\ sink[i].init = 0}

\* no InitLogger call by the application so far, finished or in progress
NoExplicitInit ==
    /\ \A e \in hist : e.ev = "init" => e.lazy
    /\ \A t \in Threads : \A i \in DOMAIN stack[t] :
          stack[t][i].fn = "InitLogger" => stack[t][i].lazy

FirstUseFns == {"Debug", "Info", "Warn", "Error",
                "Debugf", "Infof", "Warnf", "Errorf"}

\* C1: as long as the application has not called InitLogger, no thread
\* dereferences a nil defaultLogger in getLogger, and every finished call of
\* Debug/Info/Warn/Error or an f-variant has written exactly one record of its
\* own, whatever the interleaving of the threads' nil checks, default
\* initializations and final reads.
FirstUseSafe ==
    NoExplicitInit =>
        /\ \A e \in hist : e.ev # "nilderef"
        /\ \A e \in hist :
              (e.ev = "done" /\ e.kind = "Log" /\ e.fn \in FirstUseFns) =>
                  /\ Cardinality(RecordsOf(e.opn)) = 1
                  /\ \A i \in RecordsOf(e.opn) :
                        sink[i].fn = e.fn /\ sink[i].t = e.t /\ sink[i].via # 0

\* two threads raced through the first use: each ran its own default
\* initialization and each finished its logging call
FirstUseRaced ==
    /\ NoExplicitInit
    /\ Len(defaultLogger) = 3
    /\ \E e1, e2 \in hist :
          /\ e1.ev = "done" /\ e2.ev = "done" /\ e1.t # e2.t
          /\ e1.kind = "Log" /\ e2.kind = "Log"
          /\ e1.fn \in FirstUseFns /\ e2.fn \in FirstUseFns
          /\ RecordsOf(e1.opn) # {} /\ RecordsOf(e2.opn) # {}

\* C2: a store to defaultLogger made on the lazy path (the default
\* initialization run by getLogger or GetLogger) only ever replaces nil: an
\* installed logger is left as it is, in every interleaving.
LazyPathKeepsLogger ==
    [][\A t \in Threads :
          ( /\ stack[t] # <<>>
            /\ stack'[t] # stack[t]
            /\ defaultLogger' # defaultLogger
            /\ Top(t).lazy ) => Cur = NilLogger]_vars

\* C3 as stated: every InitLogger call that returned nil has exactly one
\* summary record, an INFO record written through the logger the call built.
InitSummaryAlways ==
    \A e \in hist :
        (e.ev = "init" /\ e.err = "nil") =>
            /\ Cardinality(SummariesOf(e.built)) = 1
            /\ \A i \in SummariesOf(e.built) :
                  sink[i].lvl = "INFO" /\ sink[i].via = e.built

\* C3 (amended): every InitLogger call that returned nil made one Infof call;
\* its record is written exactly when the level of the logger it goes through
\* is DEBUG or INFO (none at WARN or ERROR), and it goes through the logger
\* the call's getLogger read: the one this call built or one stored after it,
\* never a logger installed before this call's build.
InitSummaryWhenAdmitted ==
    \A e \in hist :
        (e.ev = "init" /\ e.err = "nil") =>
            /\ e.built <= e.via /\ e.via <= Len(defaultLogger)
            /\ defaultLogger[e.via] # NilLogger
            /\ Cardinality(SummariesOf(e.built)) =
                  IF defaultLogger[e.via].level \in {"DEBUG", "INFO"} THEN 1 ELSE 0
            /\ \A i \in SummariesOf(e.built) :
                  /\ sink[i].lvl = "INFO" /\ sink[i].fn = "Infof"
                  /\ sink[i].via = e.via

\* an InitLogger call by the application at level WARN returned nil, its
\* Infof went through the logger it built, and no summary record was written
InitSummarySuppressed ==
    \E e \in hist :
        /\ e.ev = "init" /\ e.err = "nil" /\ ~e.lazy
        /\ defaultLogger[e.built].level = "WARN"
        /\ e.via = e.built
        /\ SummariesOf(e.built) = {}

\* C8: through a logger of level DEBUG, INFO, WARN or ERROR, a Fatal or
\* Fatalf call that is about to exit, or has exited, the process has written
\* its record, and a Panic call that is about to raise, or has raised, its
\* panic has written its record: exactly one record of that call, after a
\* lazy initialization too.
FatalWritesFirst ==
    /\ \A t \in Threads :
          ( /\ stack[t] # <<>> /\ Top(t).pc \in {"exit", "panic"}
            /\ Top(t).fn \in {"Fatal", "Fatalf", "Panic"}
            /\ defaultLogger[Top(t).h.core].level \in LevelNames ) =>
              /\ Cardinality(RecordsOf(OpnOf(t))) = 1
              /\ \A i \in RecordsOf(OpnOf(t)) :
                    sink[i].fn = Top(t).fn /\ sink[i].lvl = FnLevel[Top(t).fn]
    /\ \A e \in hist :
          ( /\ e.ev \in {"exit", "panic"} /\ e.fn \in {"Fatal", "Fatalf", "Panic"}
            /\ defaultLogger[e.via].level \in LevelNames ) =>
              /\ Cardinality(RecordsOf(e.opn)) = 1
              /\ \A i \in RecordsOf(e.opn) :
                    sink[i].fn = e.fn /\ sink[i].lvl = FnLevel[e.fn]

\* the process has exited on a Fatalf call made through a logger of level
\* ERROR, its record in the sink
FatalExited ==
    /\ status = "exited"
    /\ \E e \in hist :
          /\ e.ev = "exit" /\ e.fn = "Fatalf"
          /\ \E i \in RecordsOf(e.opn) :
                defaultLogger[sink[i].via].level = "ERROR"

\* C9: a step in which InitLogger returns an error leaves defaultLogger as it
\* was before the call (stated for the calls during which no other goroutine
\* has stored to defaultLogger, so that "before the call" is "before the step").
FailedInitKeepsLogger ==
    [][\A t \in Threads :
          ( /\ \E e \in hist' \ hist : e.ev = "init" /\ e.err # "nil" /\ e.t = t
            /\ stack[t] # <<>> => Top(t).entry = Len(defaultLogger) )
          => Cur' = Cur]_vars

\* C10: every record of a package-level leveled function, or of a leveled
\* method called on the logger Ctx or WithFields returned, names the
\* application frame that made the call as its caller.
CallerIsApplication ==
    \A i \in DOMAIN sink :
        (sink[i].init = 0 /\ sink[i].kind \in {"Log", "Ctx", "WithFields"}) =>
            sink[i].caller = "app"


(***************************************************************************)
(* Properties of the resolution specification.                             *)
(***************************************************************************)
Resolved == probe.done

\* the characters a JSON string literal holds as they are
PlainName(f) ==
    \A i \in DOMAIN f : f[i] \notin {"\\", "\""} \cup ControlChars

\* C4: in every configuration InitLogger resolves, the level is the level
\* name the level string upper-cases to, DEBUG when it upper-cases to none
\* (the empty string included), and the level never makes InitLogger fail: a
\* console configuration, and a file configuration whose filename JSON
\* holds as it is, is accepted whatever the level string.
LevelResolution ==
    Resolved =>
        LET l == probe.args.level
        IN  /\ probe.cfg.err = "nil" =>
                  /\ \A n \in LevelNames :
                        l \in VariantsOf(n) => probe.cfg.level = n
                  /\ (\A n \in LevelNames : l \notin VariantsOf(n)) =>
                        probe.cfg.level = "DEBUG"
            /\ (~probe.args.isSave \/ PlainName(probe.args.filename)) =>
                  probe.cfg.err = "nil"

\* C5: in every configuration InitLogger resolves, with isSave the encoding
\* is json whatever encodingType holds; without it the encoding is json
\* exactly when the first encodingType is "json", and console otherwise.
EncodingResolution ==
    (Resolved /\ probe.cfg.err = "nil") =>
        LET et == probe.args.encodingType
        IN  /\ probe.args.isSave => probe.cfg.encoding = S_json
            /\ ~probe.args.isSave =>
                  /\ probe.cfg.encoding = S_json <=> (et # <<>> /\ et[1] = "json")
                  /\ probe.cfg.encoding # S_json => probe.cfg.encoding = S_console

\* C6: in every configuration InitLogger resolves, the output path and the
\* error output path are, with isSave, the filename passed ("out.log" for the
\* empty filename) and, without isSave, stdout; they are never empty.
OutputTargetIsFilename ==
    (Resolved /\ probe.cfg.err = "nil") =>
        LET want == IF ~probe.args.isSave THEN S_stdout
                    ELSE IF probe.args.filename = <<>> THEN S_outlog
                    ELSE probe.args.filename
        IN  /\ probe.cfg.outputPaths = <<want>>
            /\ probe.cfg.errorOutputPaths = <<want>>
            /\ want # <<>>

(***************************************************************************)
(* Properties of the context specification.                                *)
(***************************************************************************)
TraceKeys == {"X-B3-TraceId", "X-B3-SpanId", "X-B3-ParentSpanId", "X-Span-Name"}

\* Ctx(ctx) has returned its logger to the application on thread t
CtxReturned(t) ==
    /\ stack[t] # <<>>
    /\ Top(t).fn = "app" /\ Top(t).pc = "use"
    /\ Top(t).op.kind = "Ctx"

\* C7: the logger Ctx returns has a "context" field exactly when one of the
\* four keys has a non-nil value in the context; the field's value maps the
\* keys found, and only those, to their values; for the nil context or with
\* no key found the logger has no field.  In both cases it is the logger
\* getLogger returned: an installed logger, the lazily built one on first
\* use, with getLogger's one skipped frame.
ContextField ==
    \A t \in Threads :
        CtxReturned(t) =>
            LET c     == Top(t).op.ctx
                h     == Top(t).h
                found == IF c = NilCtx THEN {}
                         ELSE {k \in TraceKeys : c[k] # NilValue}
                have  == {i \in DOMAIN h.fields : h.fields[i].key = "context"}
            IN  /\ have # {} <=> found # {}
                /\ found # {} =>
                      /\ Len(h.fields) = 1
                      /\ DOMAIN h.fields[1].val = found
                      /\ \A k \in found : h.fields[1].val[k] = c[k]
                /\ found = {} => h.fields = <<>>
                /\ h.core \in 2..Len(defaultLogger)
                /\ defaultLogger[h.core] # NilLogger
                /\ h.skip = 1

\* Ctx, called with no logger installed on a context that binds X-B3-TraceId
\* and a key Ctx does not read, has returned the lazily built logger with
\* the context field of the one key
ContextTraceIdOnly ==
    \E t \in Threads :
        /\ CtxReturned(t)
        /\ Top(t).op.ctx # NilCtx
        /\ Top(t).op.ctx["X-B3-TraceId"] = "t1"
        /\ Top(t).op.ctx["X-B3-Sampled"] = "s1"
        /\ \A k \in TraceKeys \ {"X-B3-TraceId"} : Top(t).op.ctx[k] = NilValue
        /\ Len(Top(t).h.fields) = 1
        /\ DOMAIN Top(t).h.fields[1].val = {"X-B3-TraceId"}
        /\ Top(t).h.core = 2
        /\ Len(sink) = 1

====
